---- MODULE Spec2Model ----
(***************************************************************************)
(* Model of the Random Lottery state converter (src/main.rs, old_rl.rs,    *)
(* new_rl.rs, common.rs).  Objects are modelled by their object            *)
(* representation: a sequence of bytes laid out by the repr(C) rules, the  *)
(* way read_contract_file fills an OldRL (copy_nonoverlapping) and         *)
(* write_new_rl_to_file dumps a NewRL (slice::from_raw_parts).  A field    *)
(* value is the sequence of its bytes in memory order (native byte order,  *)
(* no conversion is made anywhere in the program).                         *)
(***************************************************************************)
EXTENDS Integers, Sequences, FiniteSets, TLC

VARIABLES file, buffer, maxRead, err, boxed, new_rl, created, out, pc

vars == <<file, buffer, maxRead, err, boxed, new_rl, created, out, pc>>

(* ---------------------------------------------------------------------- *)
(* Capacities (scaled down) and widths                                     *)
(* ---------------------------------------------------------------------- *)
RL_MAX_NUMBER_OF_PLAYERS == 2

RL_MAX_NUMBER_OF_WINNERS_IN_HISTORY == 2

ID_SIZE == 32

U64_SIZE == 8

U32_SIZE == 4

U16_SIZE == 2

U8_SIZE == 1

DUMP_LIMIT == 32

(* ---------------------------------------------------------------------- *)
(* Byte-sequence helpers                                                   *)
(* ---------------------------------------------------------------------- *)
Min(a, b) == IF a <= b THEN a ELSE b

AlignUp(off, a) == ((off + a - 1) \div a) * a

Fill(n, b) == [i \in 1..n |-> b]

Zeros(n) == Fill(n, 0)

\* the n bytes of mem at the 0-based offset off
Bytes(mem, off, n) == SubSeq(mem, off + 1, off + n)

IsAllZero(s) == \A i \in 1..Len(s) : s[i] = 0

Pow2(n) == IF n = 0 THEN 1 ELSE IF n = 1 THEN 2 ELSE IF n = 2 THEN 4
           ELSE IF n = 3 THEN 8 ELSE IF n = 4 THEN 16 ELSE IF n = 5 THEN 32
           ELSE IF n = 6 THEN 64 ELSE 128

NoObject == <<>>

NoError == [kind |-> "none", expected |-> 0, actual |-> 0]

(* ---------------------------------------------------------------------- *)
(* Layout of common::WinnerInfo (repr(C))                                  *)
(* ---------------------------------------------------------------------- *)
WI_OFF_winner_address == 0

WI_OFF_revenue == AlignUp(WI_OFF_winner_address + ID_SIZE, U64_SIZE)

WI_OFF_epoch == AlignUp(WI_OFF_revenue + U64_SIZE, U16_SIZE)

WI_OFF_tick == AlignUp(WI_OFF_epoch + U16_SIZE, U32_SIZE)

SizeOfWinnerInfo == AlignUp(WI_OFF_tick + U32_SIZE, U64_SIZE)

\* offsets inside a WinnerInfo that belong to no field
WinnerInfoPadding ==
    ((WI_OFF_epoch + U16_SIZE) .. (WI_OFF_tick - 1))
      \cup ((WI_OFF_tick + U32_SIZE) .. (SizeOfWinnerInfo - 1))

(* ---------------------------------------------------------------------- *)
(* Layout of old_rl::PlayerHashSet (repr(C))                               *)
(* ---------------------------------------------------------------------- *)
OccupationWords == (RL_MAX_NUMBER_OF_PLAYERS * 2 + 63) \div 64

PHS_OFF_players == 0

PHS_OFF_occupation_flags == PHS_OFF_players + ID_SIZE * RL_MAX_NUMBER_OF_PLAYERS

PHS_OFF_population == PHS_OFF_occupation_flags + U64_SIZE * OccupationWords

PHS_OFF_mark_removal_counter == PHS_OFF_population + U64_SIZE

SizeOfPlayerHashSet == PHS_OFF_mark_removal_counter + U64_SIZE

(* ---------------------------------------------------------------------- *)
(* Layout of old_rl::OldRL (repr(C))                                       *)
(* ---------------------------------------------------------------------- *)
OLD_OFF_team_address == 0

OLD_OFF_owner_address == OLD_OFF_team_address + ID_SIZE

OLD_OFF_team_fee_percent == OLD_OFF_owner_address + ID_SIZE

OLD_OFF_distribution_fee_percent == OLD_OFF_team_fee_percent + U8_SIZE

OLD_OFF_winner_fee_percent == OLD_OFF_distribution_fee_percent + U8_SIZE

OLD_OFF_burn_percent == OLD_OFF_winner_fee_percent + U8_SIZE

OLD_OFF_ticket_price == AlignUp(OLD_OFF_burn_percent + U8_SIZE, U64_SIZE)

OLD_OFF_players == OLD_OFF_ticket_price + U64_SIZE

OLD_OFF_winners == OLD_OFF_players + SizeOfPlayerHashSet

OLD_OFF_winners_info_next_empty_index ==
    OLD_OFF_winners + SizeOfWinnerInfo * RL_MAX_NUMBER_OF_WINNERS_IN_HISTORY

OLD_OFF_current_state == OLD_OFF_winners_info_next_empty_index + U64_SIZE

\* std::mem::size_of::<OldRL>()
SizeOfOldRL == AlignUp(OLD_OFF_current_state + U8_SIZE, U64_SIZE)

\* offsets of an OldRL that belong to no field
OldPadding ==
    ((OLD_OFF_burn_percent + U8_SIZE) .. (OLD_OFF_ticket_price - 1))
      \cup { OLD_OFF_winners + SizeOfWinnerInfo * i + o :
                i \in 0..(RL_MAX_NUMBER_OF_WINNERS_IN_HISTORY - 1),
                o \in WinnerInfoPadding }
      \cup ((OLD_OFF_current_state + U8_SIZE) .. (SizeOfOldRL - 1))

(* field reads of an OldRL given by its bytes *)
Old_team_address(old) == Bytes(old, OLD_OFF_team_address, ID_SIZE)

Old_owner_address(old) == Bytes(old, OLD_OFF_owner_address, ID_SIZE)

Old_team_fee_percent(old) == Bytes(old, OLD_OFF_team_fee_percent, U8_SIZE)

Old_distribution_fee_percent(old) ==
    Bytes(old, OLD_OFF_distribution_fee_percent, U8_SIZE)

Old_winner_fee_percent(old) == Bytes(old, OLD_OFF_winner_fee_percent, U8_SIZE)

Old_burn_percent(old) == Bytes(old, OLD_OFF_burn_percent, U8_SIZE)

Old_ticket_price(old) == Bytes(old, OLD_OFF_ticket_price, U64_SIZE)

\* old.players.players[i], i from 0
Old_player(old, i) ==
    Bytes(old, OLD_OFF_players + PHS_OFF_players + ID_SIZE * i, ID_SIZE)

Old_occupation_flags(old) ==
    Bytes(old, OLD_OFF_players + PHS_OFF_occupation_flags,
          U64_SIZE * OccupationWords)

Old_population(old) ==
    Bytes(old, OLD_OFF_players + PHS_OFF_population, U64_SIZE)

Old_mark_removal_counter(old) ==
    Bytes(old, OLD_OFF_players + PHS_OFF_mark_removal_counter, U64_SIZE)

\* old.winners[i], i from 0: the whole record, padding included
Old_winner(old, i) ==
    Bytes(old, OLD_OFF_winners + SizeOfWinnerInfo * i, SizeOfWinnerInfo)

Old_winners_info_next_empty_index(old) ==
    Bytes(old, OLD_OFF_winners_info_next_empty_index, U64_SIZE)

Old_current_state(old) == Bytes(old, OLD_OFF_current_state, U8_SIZE)

\* the two state bits of slot i in the packed occupancy bitmap
\* (0 = free); the words are stored least significant byte first
SlotState(old, i) ==
    (Old_occupation_flags(old)[((2 * i) \div 8) + 1] \div Pow2((2 * i) % 8)) % 4

\* EState has the discriminants Selling = 0 and Locked = 1 only
ValidEState(b) == b \in {0, 1}

(* ---------------------------------------------------------------------- *)
(* Layout of new_rl::WinnerInfoNew (repr(C)): tick is stored before epoch  *)
(* ---------------------------------------------------------------------- *)
WIN_OFF_winner_address == 0

WIN_OFF_revenue == AlignUp(WIN_OFF_winner_address + ID_SIZE, U64_SIZE)

WIN_OFF_tick == AlignUp(WIN_OFF_revenue + U64_SIZE, U32_SIZE)

WIN_OFF_epoch == AlignUp(WIN_OFF_tick + U32_SIZE, U16_SIZE)

WIN_OFF_day_of_week == WIN_OFF_epoch + U16_SIZE

SizeOfWinnerInfoNew == AlignUp(WIN_OFF_day_of_week + U8_SIZE, U64_SIZE)

WinnerInfoNewPadding == (WIN_OFF_day_of_week + U8_SIZE) .. (SizeOfWinnerInfoNew - 1)

(* ---------------------------------------------------------------------- *)
(* Layout of new_rl::NextEpochData (repr(C))                               *)
(* ---------------------------------------------------------------------- *)
NED_OFF_new_price == 0

NED_OFF_schedule == NED_OFF_new_price + U64_SIZE

SizeOfNextEpochData == AlignUp(NED_OFF_schedule + U8_SIZE, U64_SIZE)

NextEpochDataPadding == (NED_OFF_schedule + U8_SIZE) .. (SizeOfNextEpochData - 1)

(* ---------------------------------------------------------------------- *)
(* Layout of new_rl::NewRL (repr(C))                                       *)
(* ---------------------------------------------------------------------- *)
NEW_OFF_winners == 0

NEW_OFF_players ==
    NEW_OFF_winners + SizeOfWinnerInfoNew * RL_MAX_NUMBER_OF_WINNERS_IN_HISTORY

NEW_OFF_team_address == NEW_OFF_players + ID_SIZE * RL_MAX_NUMBER_OF_PLAYERS

NEW_OFF_owner_address == NEW_OFF_team_address + ID_SIZE

NEW_OFF_next_epoch_data == AlignUp(NEW_OFF_owner_address + ID_SIZE, U64_SIZE)

NEW_OFF_ticket_price == NEW_OFF_next_epoch_data + SizeOfNextEpochData

NEW_OFF_player_counter == NEW_OFF_ticket_price + U64_SIZE

NEW_OFF_winners_counter == NEW_OFF_player_counter + U64_SIZE

NEW_OFF_last_draw_day == NEW_OFF_winners_counter + U64_SIZE

NEW_OFF_last_draw_hour == NEW_OFF_last_draw_day + U8_SIZE

NEW_OFF_last_draw_date_stamp == AlignUp(NEW_OFF_last_draw_hour + U8_SIZE, U32_SIZE)

NEW_OFF_team_fee_percent == NEW_OFF_last_draw_date_stamp + U32_SIZE

NEW_OFF_distribution_fee_percent == NEW_OFF_team_fee_percent + U8_SIZE

NEW_OFF_winner_fee_percent == NEW_OFF_distribution_fee_percent + U8_SIZE

NEW_OFF_burn_percent == NEW_OFF_winner_fee_percent + U8_SIZE

NEW_OFF_schedule == NEW_OFF_burn_percent + U8_SIZE

NEW_OFF_draw_hour == NEW_OFF_schedule + U8_SIZE

NEW_OFF_current_state == NEW_OFF_draw_hour + U8_SIZE

\* std::mem::size_of::<NewRL>()
SizeOfNewRL == AlignUp(NEW_OFF_current_state + U8_SIZE, U64_SIZE)

\* padding between and after the top-level fields of a NewRL
NewTopLevelPadding ==
    ((NEW_OFF_last_draw_hour + U8_SIZE) .. (NEW_OFF_last_draw_date_stamp - 1))
      \cup ((NEW_OFF_current_state + U8_SIZE) .. (SizeOfNewRL - 1))

\* padding inside the winner records of a NewRL
NewWinnersPadding ==
    { NEW_OFF_winners + SizeOfWinnerInfoNew * i + o :
         i \in 0..(RL_MAX_NUMBER_OF_WINNERS_IN_HISTORY - 1),
         o \in WinnerInfoNewPadding }

\* padding inside the next_epoch_data field of a NewRL
NewNextEpochPadding == { NEW_OFF_next_epoch_data + o : o \in NextEpochDataPadding }

NewPadding == NewTopLevelPadding \cup NewWinnersPadding \cup NewNextEpochPadding

(* field reads of a NewRL given by its bytes *)
New_winner(new, i) ==
    Bytes(new, NEW_OFF_winners + SizeOfWinnerInfoNew * i, SizeOfWinnerInfoNew)

New_player(new, i) == Bytes(new, NEW_OFF_players + ID_SIZE * i, ID_SIZE)

New_team_address(new) == Bytes(new, NEW_OFF_team_address, ID_SIZE)

New_owner_address(new) == Bytes(new, NEW_OFF_owner_address, ID_SIZE)

New_next_epoch_data(new) == Bytes(new, NEW_OFF_next_epoch_data, SizeOfNextEpochData)

New_ticket_price(new) == Bytes(new, NEW_OFF_ticket_price, U64_SIZE)

New_player_counter(new) == Bytes(new, NEW_OFF_player_counter, U64_SIZE)

New_winners_counter(new) == Bytes(new, NEW_OFF_winners_counter, U64_SIZE)

New_last_draw_day(new) == Bytes(new, NEW_OFF_last_draw_day, U8_SIZE)

New_last_draw_hour(new) == Bytes(new, NEW_OFF_last_draw_hour, U8_SIZE)

New_last_draw_date_stamp(new) == Bytes(new, NEW_OFF_last_draw_date_stamp, U32_SIZE)

New_team_fee_percent(new) == Bytes(new, NEW_OFF_team_fee_percent, U8_SIZE)

New_distribution_fee_percent(new) ==
    Bytes(new, NEW_OFF_distribution_fee_percent, U8_SIZE)

New_winner_fee_percent(new) == Bytes(new, NEW_OFF_winner_fee_percent, U8_SIZE)

New_burn_percent(new) == Bytes(new, NEW_OFF_burn_percent, U8_SIZE)

New_schedule(new) == Bytes(new, NEW_OFF_schedule, U8_SIZE)

New_draw_hour(new) == Bytes(new, NEW_OFF_draw_hour, U8_SIZE)

New_current_state(new) == Bytes(new, NEW_OFF_current_state, U8_SIZE)

(* fields of one record, old layout (w) and new layout (n) *)
WI_winner_address(w) == Bytes(w, WI_OFF_winner_address, ID_SIZE)

WI_revenue(w) == Bytes(w, WI_OFF_revenue, U64_SIZE)

WI_epoch(w) == Bytes(w, WI_OFF_epoch, U16_SIZE)

WI_tick(w) == Bytes(w, WI_OFF_tick, U32_SIZE)

WIN_winner_address(n) == Bytes(n, WIN_OFF_winner_address, ID_SIZE)

WIN_revenue(n) == Bytes(n, WIN_OFF_revenue, U64_SIZE)

WIN_tick(n) == Bytes(n, WIN_OFF_tick, U32_SIZE)

WIN_epoch(n) == Bytes(n, WIN_OFF_epoch, U16_SIZE)

WIN_day_of_week(n) == Bytes(n, WIN_OFF_day_of_week, U8_SIZE)

(* ---------------------------------------------------------------------- *)
(* Values a byte that the program never initialises may hold.  A typed     *)
(* move or copy of a struct carries its fields only; what its padding      *)
(* bytes hold afterwards is not defined, so every such byte is a choice.   *)
(* ---------------------------------------------------------------------- *)
PadGarbage == {0, 170}

\* mem with the bytes at offsets off .. off+Len(bs)-1 replaced by bs
Store(mem, off, bs) ==
    SubSeq(mem, 1, off) \o bs \o SubSeq(mem, off + Len(bs) + 1, Len(mem))

\* MaybeUninit::<T>::zeroed().assume_init() for a T of the given size:
\* zero in every field; the padding offsets pad hold g after the move
ZeroedAssumeInit(size, pad, g) ==
    [i \in 1..size |-> IF (i - 1) \in pad THEN g ELSE 0]

(* ---------------------------------------------------------------------- *)
(* impl From<&OldRL> for NewRL, one operator per assignment                *)
(* ---------------------------------------------------------------------- *)
\* plausible slip: the record is copied as it lies in the old layout
ConvertWinner_OldLayout(w, g) == w

\* the closure of the map: a WinnerInfoNew built from a WinnerInfo
ConvertWinner(w, g) ==
    Store(Store(Store(Store(Store(Fill(SizeOfWinnerInfoNew, g),
        WIN_OFF_winner_address, WI_winner_address(w)),
        WIN_OFF_revenue, WI_revenue(w)),
        WIN_OFF_epoch, WI_epoch(w)),
        WIN_OFF_tick, WI_tick(w)),
        WIN_OFF_day_of_week, Zeros(U8_SIZE))

\* old.winners.iter().map(..).collect::<Vec<WinnerInfoNew>>()
CollectWinners(old, g) ==
    [i \in 1..RL_MAX_NUMBER_OF_WINNERS_IN_HISTORY |->
        ConvertWinner(Old_winner(old, i - 1), g)]

\* Vec<WinnerInfoNew> -> [WinnerInfoNew; N] succeeds iff the length is N
TryIntoOk(v) == Len(v) = RL_MAX_NUMBER_OF_WINNERS_IN_HISTORY

\* the bytes of the array made of the records of v
ArrayBytes(v, elemSize) ==
    [j \in 1..(elemSize * Len(v)) |->
        v[((j - 1) \div elemSize) + 1][((j - 1) % elemSize) + 1]]

\* plausible slip: slots whose occupancy bits say "free" are cleared
From_players_OccupiedOnly(old) ==
    ArrayBytes([i \in 1..RL_MAX_NUMBER_OF_PLAYERS |->
                   IF SlotState(old, i - 1) = 0 THEN Zeros(ID_SIZE)
                   ELSE Old_player(old, i - 1)], ID_SIZE)

\* new_rl.players = old.players.players
From_players(old) ==
    ArrayBytes([i \in 1..RL_MAX_NUMBER_OF_PLAYERS |-> Old_player(old, i - 1)],
               ID_SIZE)

\* plausible slip: the counter is reset like player_counter
From_winners_counter_Reset(old) == Zeros(U64_SIZE)

\* new_rl.winners_counter = old.winners_info_next_empty_index
From_winners_counter(old) == Old_winners_info_next_empty_index(old)

\* plausible slip: the counter is derived from the legacy population
From_player_counter_Population(old) == Old_population(old)

\* new_rl.player_counter = 0
From_player_counter(old) == Zeros(U64_SIZE)

\* NextEpochData::default(): zeroed, then returned and assigned by value
NextEpochData_default(g) ==
    ZeroedAssumeInit(SizeOfNextEpochData, NextEpochDataPadding, g)

\* NewRL::from(old); gw, gn, gt are what the padding of the winner records,
\* of next_epoch_data and of the top level holds
From(old, gw, gn, gt) ==
    LET m0  == ZeroedAssumeInit(SizeOfNewRL, NewPadding, gt)
        m1  == Store(m0, NEW_OFF_winners,
                     ArrayBytes(CollectWinners(old, gw), SizeOfWinnerInfoNew))
        m2  == Store(m1, NEW_OFF_players, From_players(old))
        m3  == Store(m2, NEW_OFF_team_address, Old_team_address(old))
        m4  == Store(m3, NEW_OFF_owner_address, Old_owner_address(old))
        m5  == Store(m4, NEW_OFF_ticket_price, Old_ticket_price(old))
        m6  == Store(m5, NEW_OFF_winners_counter, From_winners_counter(old))
        m7  == Store(m6, NEW_OFF_team_fee_percent, Old_team_fee_percent(old))
        m8  == Store(m7, NEW_OFF_distribution_fee_percent,
                     Old_distribution_fee_percent(old))
        m9  == Store(m8, NEW_OFF_winner_fee_percent, Old_winner_fee_percent(old))
        m10 == Store(m9, NEW_OFF_burn_percent, Old_burn_percent(old))
        m11 == Store(m10, NEW_OFF_current_state, Old_current_state(old))
        m12 == Store(m11, NEW_OFF_next_epoch_data, NextEpochData_default(gn))
        m13 == Store(m12, NEW_OFF_player_counter, From_player_counter(old))
        m14 == Store(m13, NEW_OFF_last_draw_day, Zeros(U8_SIZE))
        m15 == Store(m14, NEW_OFF_last_draw_hour, Zeros(U8_SIZE))
        m16 == Store(m15, NEW_OFF_last_draw_date_stamp, Zeros(U32_SIZE))
        m17 == Store(m16, NEW_OFF_schedule, Zeros(U8_SIZE))
        m18 == Store(m17, NEW_OFF_draw_hour, Zeros(U8_SIZE))
    IN  m18

(* ---------------------------------------------------------------------- *)
(* read_contract_file and write_new_rl_to_file                             *)
(* ---------------------------------------------------------------------- *)
\* plausible slip: the dump indexes the first 32 bytes whatever the length
DumpCount_Fixed(len) == DUMP_LIMIT

\* buffer.iter().take(32): how many bytes the debug dump reads
DumpCount(len) == Min(DUMP_LIMIT, len)

\* plausible slip: only too short a buffer is rejected
SizeMatches_AtLeast(len) == len >= SizeOfOldRL

\* buffer.len() != expected is the failure
SizeMatches(len) == len = SizeOfOldRL

\* the message of the error, by the two numbers it is formatted from
SizeMismatch(expected, actual) ==
    [kind |-> "SizeMismatch", expected |-> expected, actual |-> actual]

\* plausible slip: a field-wise decode that leaves the padding zeroed
CopyNonoverlapping_FieldsOnly(src, dst, count) ==
    [i \in 1..Len(dst) |->
        IF i <= count /\ (i - 1) \notin OldPadding THEN src[i] ELSE dst[i]]

\* ptr::copy_nonoverlapping(src, dst, count) on bytes
CopyNonoverlapping(src, dst, count) ==
    [i \in 1..Len(dst) |-> IF i <= count THEN src[i] ELSE dst[i]]

\* plausible slip: the slice is one byte short
RawBytes_Short(obj, size) == SubSeq(obj, 1, size - 1)

\* slice::from_raw_parts(obj as *const u8, size)
RawBytes(obj, size) == SubSeq(obj, 1, size)

\* what printing an EState with {:?} can do: the derived Debug matches on
\* the discriminant, and a discriminant that is no variant is undefined
\* behaviour, so the print either returns or the process dies
DebugOutcomes(b) == IF ValidEState(b) THEN {"returns"} ELSE {"returns", "dies"}

(* ---------------------------------------------------------------------- *)
(* Input files                                                             *)
(* ---------------------------------------------------------------------- *)
FileLens ==
    {0, 1, DUMP_LIMIT - 1, DUMP_LIMIT + 1,
     SizeOfOldRL - 1, SizeOfOldRL, SizeOfOldRL + 1}

Bases == {"zero", "ramp"}

\* in a ramp no two bytes less than 256 apart are equal
BaseByte(base, i) == IF base = "zero" THEN 0 ELSE (i * 7 + 3) % 256

OverrideVals == {0, 1, 2, 255}

\* a base pattern with the byte at offset p (if any) replaced by v
MakeFile(len, base, p, v) ==
    [i \in 1..len |-> IF i - 1 = p THEN v ELSE BaseByte(base, i - 1)]

(* ---------------------------------------------------------------------- *)
(* The run of main                                                         *)
(* ---------------------------------------------------------------------- *)
Init ==
    /\ \E len \in FileLens, base \in Bases, v \in OverrideVals :
          \E p \in 0..len : file = MakeFile(len, base, p, v)
    /\ buffer = <<>>
    /\ maxRead = 0
    /\ err = NoError
    /\ boxed = NoObject
    /\ new_rl = NoObject
    /\ created = FALSE
    /\ out = <<>>
    /\ pc = "read"

\* file.read_to_end(&mut buffer)
ReadToEnd ==
    /\ pc = "read"
    /\ buffer' = file
    /\ pc' = "dump"
    /\ UNCHANGED <<file, maxRead, err, boxed, new_rl, created, out>>

\* the dump of the first bytes of the buffer
DebugDump ==
    /\ pc = "dump"
    /\ maxRead' = DumpCount(Len(buffer))
    /\ pc' = "validate"
    /\ UNCHANGED <<file, buffer, err, boxed, new_rl, created, out>>

\* the size check; on a mismatch read_contract_file returns Err and the
\* `?` in main returns it
ValidateSize ==
    /\ pc = "validate"
    /\ IF SizeMatches(Len(buffer))
       THEN /\ pc' = "copy"
            /\ err' = err
       ELSE /\ pc' = "failed"
            /\ err' = SizeMismatch(SizeOfOldRL, Len(buffer))
    /\ UNCHANGED <<file, buffer, maxRead, boxed, new_rl, created, out>>

\* the zeroed Box<OldRL> and the bulk copy into it
CopyBytes ==
    /\ pc = "copy"
    /\ boxed' = CopyNonoverlapping(buffer, Zeros(SizeOfOldRL), SizeOfOldRL)
    /\ maxRead' = IF maxRead >= SizeOfOldRL THEN maxRead ELSE SizeOfOldRL
    /\ pc' = "display_old"
    /\ UNCHANGED <<file, buffer, err, new_rl, created, out>>

\* println!("{}", rl_state)
DisplayOld ==
    /\ pc = "display_old"
    /\ \E o \in DebugOutcomes(Old_current_state(boxed)[1]) :
          pc' = IF o = "returns" THEN "convert" ELSE "crashed"
    /\ UNCHANGED <<file, buffer, maxRead, err, boxed, new_rl, created, out>>

\* NewRL::from(rl_state.as_ref())
Convert ==
    /\ pc = "convert"
    /\ \E gw \in PadGarbage, gn \in PadGarbage, gt \in PadGarbage :
          IF TryIntoOk(CollectWinners(boxed, gw))
          THEN /\ new_rl' = From(boxed, gw, gn, gt)
               /\ pc' = "display_new"
          ELSE /\ new_rl' = new_rl
               /\ pc' = "panicked"
    /\ UNCHANGED <<file, buffer, maxRead, err, boxed, created, out>>

\* println!("{}", new_rl)
DisplayNew ==
    /\ pc = "display_new"
    /\ \E o \in DebugOutcomes(New_current_state(new_rl)[1]) :
          pc' = IF o = "returns" THEN "create" ELSE "crashed"
    /\ UNCHANGED <<file, buffer, maxRead, err, boxed, new_rl, created, out>>

\* write_new_rl_to_file: File::create
CreateFile ==
    /\ pc = "create"
    /\ created' = TRUE
    /\ out' = <<>>
    /\ pc' = "write_all"
    /\ UNCHANGED <<file, buffer, maxRead, err, boxed, new_rl>>

\* write_new_rl_to_file: write_all and flush of the raw bytes of the NewRL
WriteAll ==
    /\ pc = "write_all"
    /\ out' = RawBytes(new_rl, SizeOfNewRL)
    /\ pc' = "done"
    /\ UNCHANGED <<file, buffer, maxRead, err, boxed, new_rl, created>>

Next ==
    \/ ReadToEnd
    \/ DebugDump
    \/ ValidateSize
    \/ CopyBytes
    \/ DisplayOld
    \/ Convert
    \/ DisplayNew
    \/ CreateFile
    \/ WriteAll

Spec == Init /\ [][Next]_vars

(* ---------------------------------------------------------------------- *)
(* Properties                                                              *)
(* ---------------------------------------------------------------------- *)
Decoded == boxed # NoObject

Converted == new_rl # NoObject

PlayerIdx == 0..(RL_MAX_NUMBER_OF_PLAYERS - 1)

WinnerIdx == 0..(RL_MAX_NUMBER_OF_WINNERS_IN_HISTORY - 1)

\* C1: once the size check has run on a buffer whose length is not
\* sizeof(OldRL), the run has failed with a SizeMismatch error that carries
\* the expected and the actual length, and neither an OldRL nor a NewRL nor
\* an output exists.
C1_SizeMismatchRejected ==
    (pc \notin {"read", "dump", "validate"} /\ Len(buffer) # SizeOfOldRL) =>
        /\ pc = "failed"
        /\ err.kind = "SizeMismatch"
        /\ err.expected = SizeOfOldRL
        /\ err.actual = Len(buffer)
        /\ boxed = NoObject
        /\ new_rl = NoObject
        /\ ~created
        /\ out = <<>>

C1_Witness ==
    /\ pc = "failed"
    /\ Len(buffer) = SizeOfOldRL - 1
    /\ err.actual = SizeOfOldRL - 1

\* C2: the output is created only after decode and transform have both
\* completed without error; whatever has been written is the complete
\* NewRL, exactly sizeof(NewRL) bytes; a failed decode leaves no output.
C2_AllOrNothing ==
    /\ (err.kind # "none" => ~created /\ out = <<>> /\ ~Converted)
    /\ (created => err.kind = "none" /\ Decoded /\ Converted
                     /\ Len(new_rl) = SizeOfNewRL)
    /\ (out # <<>> => created /\ out = new_rl)
    /\ (pc = "done" => created /\ Len(out) = SizeOfNewRL)

C2_Witness ==
    /\ pc = "done"
    /\ created
    /\ Len(out) = SizeOfNewRL
    /\ Len(buffer) = SizeOfOldRL

\* C3: a buffer of exactly sizeof(OldRL) bytes always decodes, whatever its
\* bytes are, and the raw bytes of the decoded OldRL are the buffer.
C3_DecodeRoundTrip ==
    (pc \notin {"read", "dump", "validate", "copy"}
       /\ Len(buffer) = SizeOfOldRL) =>
        /\ err = NoError
        /\ Decoded
        /\ RawBytes(boxed, SizeOfOldRL) = buffer

C3_Witness ==
    /\ Decoded
    /\ ~ValidEState(Old_current_state(boxed)[1])
    /\ \E o \in OldPadding : boxed[o + 1] # 0

\* C4: the newly introduced scalar fields are zero in every converted
\* state, whatever the legacy player set holds.
C4_NewScalarsZero ==
    Converted =>
        /\ IsAllZero(New_player_counter(new_rl))
        /\ IsAllZero(New_last_draw_day(new_rl))
        /\ IsAllZero(New_last_draw_hour(new_rl))
        /\ IsAllZero(New_last_draw_date_stamp(new_rl))
        /\ IsAllZero(New_schedule(new_rl))
        /\ IsAllZero(New_draw_hour(new_rl))

C4_Witness ==
    /\ Converted
    /\ ~IsAllZero(Old_population(boxed))
    /\ ~IsAllZero(Old_occupation_flags(boxed))
    /\ ~IsAllZero(Old_mark_removal_counter(boxed))

\* C5: every player slot is carried over at the same index, whatever the
\* occupancy bitmap, the population and the removal counter say.
C5_PlayersVerbatim ==
    Converted =>
        \A i \in PlayerIdx : New_player(new_rl, i) = Old_player(boxed, i)

C5_Witness ==
    /\ Converted
    /\ \E i \in PlayerIdx :
          ~IsAllZero(Old_player(boxed, i)) /\ SlotState(boxed, i) = 0
    /\ \E j \in PlayerIdx :
          IsAllZero(Old_player(boxed, j)) /\ IsAllZero(New_player(new_rl, j))

\* C6: every carried-over scalar equals its one legacy field, with no
\* validation or clamping.
C6_ScalarsVerbatim ==
    Converted =>
        /\ New_winners_counter(new_rl) = Old_winners_info_next_empty_index(boxed)
        /\ New_team_address(new_rl) = Old_team_address(boxed)
        /\ New_owner_address(new_rl) = Old_owner_address(boxed)
        /\ New_ticket_price(new_rl) = Old_ticket_price(boxed)
        /\ New_team_fee_percent(new_rl) = Old_team_fee_percent(boxed)
        /\ New_distribution_fee_percent(new_rl)
             = Old_distribution_fee_percent(boxed)
        /\ New_winner_fee_percent(new_rl) = Old_winner_fee_percent(boxed)
        /\ New_burn_percent(new_rl) = Old_burn_percent(boxed)
        /\ New_current_state(new_rl) = Old_current_state(boxed)

\* a counter above the capacity (a byte above the low two is set) and a
\* percentage above 100
C6_Witness ==
    /\ Converted
    /\ \E k \in 3..U64_SIZE : Old_winners_info_next_empty_index(boxed)[k] # 0
    /\ Old_burn_percent(boxed)[1] > 100
    /\ Old_team_fee_percent(boxed)[1] > 100

\* C7: every winner record is carried over at the same index, field by
\* field, with day_of_week 0, and the array conversion never panics.
C7_WinnersVerbatim ==
    /\ pc # "panicked"
    /\ Converted =>
        \A i \in WinnerIdx :
           LET w == Old_winner(boxed, i)
               n == New_winner(new_rl, i)
           IN  /\ WIN_winner_address(n) = WI_winner_address(w)
               /\ WIN_revenue(n) = WI_revenue(w)
               /\ WIN_epoch(n) = WI_epoch(w)
               /\ WIN_tick(n) = WI_tick(w)
               /\ IsAllZero(WIN_day_of_week(n))

\* a record whose epoch differs from the low half of its tick, so that a
\* swap would show
C7_Witness ==
    /\ Converted
    /\ \E i \in WinnerIdx :
          LET w == Old_winner(boxed, i)
          IN  /\ ~IsAllZero(WI_winner_address(w))
              /\ WI_epoch(w) # SubSeq(WI_tick(w), 1, U16_SIZE)
              /\ WIN_epoch(New_winner(new_rl, i)) = WI_epoch(w)

\* C8: no byte of the buffer beyond its length is ever read, and the bulk
\* copy is reached only with a buffer of exactly sizeof(OldRL) bytes.
C8_NoReadPastBuffer ==
    /\ maxRead <= Len(buffer)
    /\ (pc = "copy" \/ Decoded) => Len(buffer) = SizeOfOldRL

C8_Witness ==
    /\ pc = "failed"
    /\ Len(buffer) > 0
    /\ Len(buffer) < DUMP_LIMIT
    /\ maxRead = Len(buffer)

\* C9: the next_epoch_data field of the converted state is all zero bytes,
\* padding included.
C9_NextEpochDataAllZero ==
    Converted => IsAllZero(New_next_epoch_data(new_rl))

\* C10: every padding byte of the written buffer, inside the winner
\* records and between and after the top-level fields, is zero.
C10_PaddingZeroFilled ==
    out # <<>> =>
        \A o \in NewWinnersPadding \cup NewTopLevelPadding : out[o + 1] = 0

====
